---------------------------- MODULE Spec2Model ----------------------------
(***************************************************************************)
(* A model of the FOTA firmware repository: the ingestion tool             *)
(* (upload_firmware.py), the ingestion routine of server.py (add_firmware) *)
(* and the two serving variants (main.py and server.py).                   *)
(*                                                                         *)
(* The file system is two variables: catalog, the file                     *)
(* /firmware/metadata.json, and store, the binaries of /firmware.  An      *)
(* ingestion call is a sequence of steps, one per file-system operation of *)
(* the code, so that calls of separate processes interleave and a failing  *)
(* step leaves behind exactly what the code leaves behind.                 *)
(*                                                                         *)
(* Abstractions: a version string is the sequence of its integer           *)
(* components ("1.2.0" is <<1, 2, 0>>); a file's content is a sequence of  *)
(* bytes; upload_date (time.time()) is left out of the entries; console    *)
(* output and the LED are left out.                                        *)
(***************************************************************************)
EXTENDS Integers, Sequences, FiniteSets, TLC

VARIABLES
    catalog,    \* the file /firmware/metadata.json
    store,      \* the binaries of /firmware: file name -> file
    up,         \* the ingestion processes: position, arguments, locals
    calls,      \* number of ingestion calls started so far
    ingested,   \* history: (device_type, version) of the calls that returned True
    faults,     \* number of I/O operations that have failed so far
    conn,       \* the connection last handled by the serving process
    probe       \* a pure function under evaluation: its arguments and result

vars == <<catalog, store, up, calls, ingested, faults, conn, probe>>

---------------------------------------------------------------------------
(* Bounds and input sets *)

\* ingestion calls started in one behaviour
MaxUploads == 2

\* I/O operations (open, read, write) that fail in one behaviour
MaxFaults == 1

\* the processes that run upload_firmware
Uploaders == {"tool1", "tool2"}

\* the serving process, which holds add_firmware
Server == "server"

Procs == Uploaders \cup {Server}

DeviceTypes == {"dev1", "dev2"}

Versions == {<<1, 2>>, <<1, 2, 0>>, <<1, 10>>}

\* what the operator releases: a binary and the description given with it
Releases == {[firmware_file |-> "A.bin", description |-> "first"],
             [firmware_file |-> "B.bin", description |-> "second"]}

\* firmware_file.split('.')[-1]
Extension(firmware_file) == "bin"

\* the bytes of the operator's source files
SourceData(firmware_file) ==
    IF firmware_file = "A.bin" THEN <<1, 2, 3>> ELSE <<7>>

Max(a, b) == IF a >= b THEN a ELSE b

Min(a, b) == IF a <= b THEN a ELSE b

---------------------------------------------------------------------------
(* calculate_stm32_crc32.  The 32-bit register is the pair <<hi, lo>> of   *)
(* its two 16-bit halves, so that every intermediate value fits the        *)
(* checker's integers; each operation below is the code's operation on the *)
(* 32-bit value.                                                           *)

CrcChunkSize == 256

\* bit i of a ^ b, in place
XorBit(a, b, i) == (((a \div (2 ^ i)) + (b \div (2 ^ i))) % 2) * (2 ^ i)

\* a ^ b on 16-bit values
Xor16(a, b) ==
    (((XorBit(a, b, 0) + XorBit(a, b, 1)) + (XorBit(a, b, 2) + XorBit(a, b, 3)))
      + ((XorBit(a, b, 4) + XorBit(a, b, 5)) + (XorBit(a, b, 6) + XorBit(a, b, 7))))
    + (((XorBit(a, b, 8) + XorBit(a, b, 9)) + (XorBit(a, b, 10) + XorBit(a, b, 11)))
      + ((XorBit(a, b, 12) + XorBit(a, b, 13)) + (XorBit(a, b, 14) + XorBit(a, b, 15))))

Xor32(x, y) == <<Xor16(x[1], y[1]), Xor16(x[2], y[2])>>

\* 0x04C11DB7
CrcPoly == <<1217, 7607>>

\* 0xFFFFFFFF
CrcInit == <<65535, 65535>>

\* crc & 0x80000000
TopBit(crc) == crc[1] \div 32768

\* (crc << 1) & 0xFFFFFFFF
ShiftLeft(crc) ==
    <<((2 * crc[1]) % 65536) + (crc[2] \div 32768), (2 * crc[2]) % 65536>>

\* one turn of the loop "for _ in range(32)"
CrcStep(crc) ==
    IF TopBit(crc) = 1 THEN Xor32(ShiftLeft(crc), CrcPoly) ELSE ShiftLeft(crc)

\* n turns of that loop, one after the other.  The turns are evaluated in two
\* halves and the first half's register is computed (half = half) before the
\* second half starts, which keeps the evaluation shallow.
RECURSIVE CrcShift(_, _)
CrcShift(crc, n) ==
    IF n = 0 THEN crc
    ELSE IF n = 1 THEN CrcStep(crc)
    ELSE LET half == CrcShift(crc, n \div 2)
         IN IF half = half THEN CrcShift(half, n - (n \div 2)) ELSE half

\* struct.unpack('<I', b)[0] of four bytes
UnpackLE(b) == <<(256 * b[4]) + b[3], (256 * b[2]) + b[1]>>

\* crc ^= word, then the 32 shifts
CrcWord(crc, word) ==
    LET x == Xor32(crc, word)
    IN IF x = x THEN CrcShift(x, 32) ELSE x

\* the words lo..hi of one chunk, in order: the whole words (lines 34-45), then
\* the rest padded with zeros (lines 48-60).  As in CrcShift, the range is
\* evaluated in two halves to keep the evaluation shallow.
RECURSIVE CrcWords(_, _, _, _)
CrcWords(crc, chunk, lo, hi) ==
    IF lo > hi THEN crc
    ELSE IF lo = hi
    THEN LET b == SubSeq(chunk, (4 * lo) - 3, Min(4 * lo, Len(chunk)))
         IN CrcWord(crc, UnpackLE(b \o [i \in 1..(4 - Len(b)) |-> 0]))
    ELSE LET mid == (lo + hi) \div 2
             c   == CrcWords(crc, chunk, lo, mid)
         IN IF c = c THEN CrcWords(c, chunk, mid + 1, hi) ELSE c

\* one chunk
CrcChunk(crc, chunk) == CrcWords(crc, chunk, 1, (Len(chunk) + 3) \div 4)

\* the reads lo..hi of the loop over f.read(chunk_size), in order
RECURSIVE CrcReads(_, _, _, _, _)
CrcReads(crc, data, chunk_size, lo, hi) ==
    IF lo > hi THEN crc
    ELSE IF lo = hi
    THEN CrcChunk(crc, SubSeq(data, (chunk_size * (lo - 1)) + 1,
                              Min(chunk_size * lo, Len(data))))
    ELSE LET mid == (lo + hi) \div 2
             c   == CrcReads(crc, data, chunk_size, lo, mid)
         IN IF c = c THEN CrcReads(c, data, chunk_size, mid + 1, hi) ELSE c

\* the loop over f.read(chunk_size), each read returning chunk_size bytes until
\* the file ends
CrcStream(crc, data, chunk_size) ==
    CrcReads(crc, data, chunk_size, 1, (Len(data) + (chunk_size - 1)) \div chunk_size)

HexDigits == <<"0", "1", "2", "3", "4", "5", "6", "7",
               "8", "9", "a", "b", "c", "d", "e", "f">>

\* the four hex digits of a 16-bit value
Hex04(h) ==
    <<HexDigits[1 + (h \div 4096)], HexDigits[1 + ((h \div 256) % 16)],
      HexDigits[1 + ((h \div 16) % 16)], HexDigits[1 + (h % 16)]>>

\* '%08x' % crc
Hex08(crc) == Hex04(crc[1]) \o Hex04(crc[2])

\* the function with a final inversion of the register
calculate_crc32_inverted(data) ==
    Hex08(Xor32(CrcStream(CrcInit, data, CrcChunkSize), <<65535, 65535>>))

calculate_stm32_crc32(data) == Hex08(CrcStream(CrcInit, data, CrcChunkSize))

---------------------------------------------------------------------------
(* compare_versions *)

\* no padding
PadNothing(v, n) == v

\* v.append(0) until the lengths agree
PadVersion(v, n) == [i \in 1..n |-> IF i <= Len(v) THEN v[i] ELSE 0]

\* Python's a < b on lists of integers
RECURSIVE ListLess(_, _)
ListLess(a, b) ==
    IF Len(a) = 0 THEN Len(b) > 0
    ELSE IF Len(b) = 0 THEN FALSE
    ELSE IF a[1] # b[1] THEN a[1] < b[1]
    ELSE ListLess(Tail(a), Tail(b))

compare_versions(version1, version2) ==
    LET n  == Max(Len(version1), Len(version2))
        v1 == PadVersion(version1, n)
        v2 == PadVersion(version2, n)
    IN (IF ListLess(v2, v1) THEN 1 ELSE 0) - (IF ListLess(v1, v2) THEN 1 ELSE 0)

---------------------------------------------------------------------------
(* The file system *)

NoFile == [exists |-> FALSE, data |-> <<>>]

File(data) == [exists |-> TRUE, data |-> data]

\* A name in /firmware: a literal name, or f"{device_type}-v{version}.{extension}"
Literal(name) == [lit |-> name, device_type |-> "", version |-> <<>>, ext |-> ""]

FileName(device_type, version, extension) ==
    [lit |-> "", device_type |-> device_type, version |-> version, ext |-> extension]

\* the versions of the binaries that /firmware may hold: those uploaded in the
\* model and "0.0.0", uploaded before it starts
StoredVersions == Versions \cup {<<0, 0, 0>>}

BinaryNames == {FileName(d, v, "bin") : d \in DeviceTypes, v \in StoredVersions}

\* the contents of a catalog document
EmptyMetadata == [firmware_entries |-> <<>>, latest_version |-> <<0, 0, 0>>]

NoDoc == [firmware_entries |-> <<>>, latest_version |-> <<>>]

\* metadata.json: missing, holding a complete document, or holding a truncated
\* (empty or half-written) one, which json.load rejects
MissingCatalog == [state |-> "missing", doc |-> NoDoc]

PartialCatalog == [state |-> "partial", doc |-> NoDoc]

ValidCatalog(doc) == [state |-> "valid", doc |-> doc]

---------------------------------------------------------------------------
(* upload_firmware *)

CopyChunkSize == 1024

IdleProc ==
    [pc |-> "idle", firmware_file |-> "", version |-> <<>>, device_type |-> "",
     description |-> "", pos |-> 0, data |-> <<>>, metadata |-> NoDoc,
     loaded |-> NoDoc, file_size |-> 0, checksum |-> <<>>, updated |-> FALSE,
     ret |-> "none", fail |-> ""]

OffProc == [IdleProc EXCEPT !.pc = "off"]

\* no function under evaluation
NoProbe == [op |-> "none"]

\* no serving process
NoConn == [handled |-> FALSE, variant |-> "none"]

\* no ingestion call is running
AllQuiet == \A p \in Procs : up[p].pc \in {"idle", "off"}

\* a step of the code may fail while the fault budget lasts
MayFail == faults < MaxFaults

\* dest_path's file name
DestName(u) == FileName(u.device_type, u.version, Extension(u.firmware_file))

\* the call ends: its arguments and its result stay visible, its locals go
Return(u, ret, fail) ==
    [IdleProc EXCEPT !.firmware_file = u.firmware_file, !.version = u.version,
                     !.device_type = u.device_type,
                     !.updated = u.updated, !.ret = ret, !.fail = fail]

\* the arguments of a call
StartCall(pc, f, v, d, t) ==
    [IdleProc EXCEPT !.pc = pc, !.firmware_file = f, !.version = v,
                     !.device_type = d, !.description = t]

\* index of the first entry of the pair, 0 if none ("for i, e in enumerate(...)")
MatchIndex(entries, device_type, version) ==
    LET hits == {i \in 1..Len(entries) :
                    /\ entries[i].device_type = device_type
                    /\ entries[i].version = version}
    IN IF hits = {} THEN 0 ELSE CHOOSE i \in hits : \A j \in hits : i <= j

\* the insert-or-replace rule without the replace: always append
UpsertAppend(metadata, entry) ==
    [metadata EXCEPT !.firmware_entries = Append(@, entry)]

\* insert-or-replace by (device_type, version)
Upsert(metadata, entry) ==
    LET i == MatchIndex(metadata.firmware_entries, entry.device_type, entry.version)
    IN IF i > 0
       THEN [metadata EXCEPT !.firmware_entries[i] = entry]
       ELSE [metadata EXCEPT !.firmware_entries = Append(@, entry)]

\* "Update latest version if needed"
UpdateLatest(metadata, version) ==
    IF compare_versions(version, metadata.latest_version) > 0
    THEN [metadata EXCEPT !.latest_version = version]
    ELSE metadata

\* what open(METADATA_FILE, 'w') leaves of the file: it is truncated at once
OpenForWrite(cat) == PartialCatalog

\* what a complete json.dump leaves in the file: the document when the file is
\* still as the open left it; when another process has written the file since,
\* the two writes overlap and the result is this document or an unparseable mix
DumpResults(cat, doc) ==
    IF cat.state = "partial" THEN {ValidCatalog(doc)}
    ELSE {ValidCatalog(doc), PartialCatalog}

\* lines 83-84: the call starts
StartUpload(p) ==
    /\ up[p].pc = "idle"
    /\ calls < MaxUploads
    /\ \E r \in Releases, v \in Versions, d \in DeviceTypes :
          up' = [up EXCEPT ![p] =
                    StartCall("ensure", r.firmware_file, v, d, r.description)]
    /\ calls' = calls + 1
    /\ UNCHANGED <<catalog, store, ingested, faults, conn>>
    /\ UNCHANGED probe

\* the default metadata.json written whether or not one exists
EnsureMetadataReset(p) ==
    /\ up[p].pc = "ensure"
    /\ catalog' = ValidCatalog(EmptyMetadata)
    /\ up' = [up EXCEPT ![p].pc = "copy_open"]
    /\ UNCHANGED <<store, calls, ingested, faults, conn>>
    /\ UNCHANGED probe

\* lines 86-99: create the default metadata.json when os.stat finds none
EnsureMetadata(p) ==
    /\ up[p].pc = "ensure"
    /\ catalog' = IF catalog.state = "missing" THEN ValidCatalog(EmptyMetadata)
                                               ELSE catalog
    /\ up' = [up EXCEPT ![p].pc = "copy_open"]
    /\ UNCHANGED <<store, calls, ingested, faults, conn>>
    /\ UNCHANGED probe

\* line 110: open the source for reading and the destination with 'wb', which
\* creates or truncates it; a failing open leaves the destination alone
CopyOpen(p) ==
    /\ up[p].pc = "copy_open"
    /\ \/ /\ store' = [store EXCEPT ![DestName(up[p])] = File(<<>>)]
          /\ up' = [up EXCEPT ![p].pc = "copy", ![p].pos = 0]
          /\ UNCHANGED faults
       \/ /\ MayFail
          /\ up' = [up EXCEPT ![p] = Return(@, "False", "open")]
          /\ faults' = faults + 1
          /\ UNCHANGED store
    /\ UNCHANGED <<catalog, calls, ingested, conn>>
    /\ UNCHANGED probe

\* lines 111-120: one turn of the copy loop.  A failing write may have written
\* any proper prefix of the chunk.
CopyChunk(p) ==
    /\ up[p].pc = "copy"
    /\ LET u     == up[p]
           src   == SourceData(u.firmware_file)
           chunk == SubSeq(src, u.pos + 1, Min(u.pos + CopyChunkSize, Len(src)))
           dest  == DestName(u)
       IN IF Len(chunk) = 0
          THEN /\ up' = [up EXCEPT ![p].pc = "info"]
               /\ UNCHANGED <<store, faults>>
          ELSE \/ /\ store' = [store EXCEPT ![dest] = File(store[dest].data \o chunk)]
                  /\ up' = [up EXCEPT ![p].pos = u.pos + Len(chunk)]
                  /\ UNCHANGED faults
               \/ /\ MayFail
                  /\ \E k \in 0..(Len(chunk) - 1) :
                        store' = [store EXCEPT ![dest] =
                                     File(store[dest].data \o SubSeq(chunk, 1, k))]
                  /\ up' = [up EXCEPT ![p] = Return(@, "False", "copy")]
                  /\ faults' = faults + 1
    /\ UNCHANGED <<catalog, calls, ingested, conn>>
    /\ UNCHANGED probe

\* lines 122-132: size and checksum, both read back from the destination
GatherInfo(p) ==
    /\ up[p].pc = "info"
    /\ LET dest == DestName(up[p])
       IN \/ /\ store[dest].exists
             /\ up' = [up EXCEPT ![p].pc = "load",
                                 ![p].file_size = Len(store[dest].data),
                                 ![p].checksum = calculate_stm32_crc32(store[dest].data)]
             /\ UNCHANGED faults
          \/ /\ MayFail
             /\ up' = [up EXCEPT ![p] = Return(@, "False", "info")]
             /\ faults' = faults + 1
    /\ UNCHANGED <<catalog, store, calls, ingested, conn>>
    /\ UNCHANGED probe

\* the dict built at lines 142-150
NewEntry(u) ==
    [version |-> u.version, device_type |-> u.device_type,
     filename |-> DestName(u), size |-> u.file_size,
     checksum |-> u.checksum, md5 |-> <<>>, description |-> u.description]

\* lines 134-139: json.load, or the empty catalog when that raises
LoadOrEmpty(cat) == IF cat.state = "valid" THEN cat.doc ELSE EmptyMetadata

\* lines 134-167: load the catalog, then upsert the entry and update
\* latest_version in memory
LoadMetadata(p) ==
    /\ up[p].pc = "load"
    /\ LET u      == up[p]
           loaded == LoadOrEmpty(catalog)
           hit    == MatchIndex(loaded.firmware_entries, u.device_type, u.version)
       IN up' = [up EXCEPT ![p].pc = "save_open",
                           ![p].loaded = loaded,
                           ![p].updated = (hit > 0),
                           ![p].metadata =
                               UpdateLatest(Upsert(loaded, NewEntry(u)), u.version)]
    /\ UNCHANGED <<catalog, store, calls, ingested, faults, conn>>
    /\ UNCHANGED probe

\* line 171: open(METADATA_FILE, 'w')
SaveOpen(p) ==
    /\ up[p].pc = "save_open"
    /\ \/ /\ catalog' = OpenForWrite(catalog)
          /\ up' = [up EXCEPT ![p].pc = "save_dump"]
          /\ UNCHANGED faults
       \/ /\ MayFail
          /\ up' = [up EXCEPT ![p] = Return(@, "False", "save")]
          /\ faults' = faults + 1
          /\ UNCHANGED catalog
    /\ UNCHANGED <<store, calls, ingested, conn>>
    /\ UNCHANGED probe

\* lines 172-179: json.dump writes the document; a failure leaves the file
\* truncated or half-written
SaveDump(p) ==
    /\ up[p].pc = "save_dump"
    /\ \/ /\ catalog' \in DumpResults(catalog, up[p].metadata)
          /\ up' = [up EXCEPT ![p] = Return(@, "True", "")]
          /\ ingested' = ingested \cup
                 {[device_type |-> up[p].device_type, version |-> up[p].version]}
          /\ UNCHANGED faults
       \/ /\ MayFail
          /\ catalog' = PartialCatalog
          /\ up' = [up EXCEPT ![p] = Return(@, "False", "save")]
          /\ faults' = faults + 1
          /\ UNCHANGED ingested
    /\ UNCHANGED <<store, calls, conn>>
    /\ UNCHANGED probe

---------------------------------------------------------------------------
(* add_firmware (server.py).  Nothing in it catches an exception: a failing *)
(* step ends the call by raising.                                           *)

\* hashlib.md5 over the file: a digest that tells contents apart
calculate_md5(data) == <<"md5", data>>

\* pkg_resources.parse_version(a) > parse_version(b): trailing zero components
\* do not count
PkgVersionGreater(a, b) == compare_versions(a, b) > 0

\* the dict built at lines 100-108
NewServerEntry(u, data) ==
    [version |-> u.version, device_type |-> u.device_type,
     filename |-> DestName(u), size |-> Len(data),
     checksum |-> <<>>, md5 |-> calculate_md5(data), description |-> u.description]

\* lines 77-85: the call starts and reads the whole source
AddFirmwareRead ==
    /\ up[Server].pc = "idle"
    /\ calls < MaxUploads
    /\ \E r \in Releases, v \in Versions, d \in DeviceTypes :
          up' = [up EXCEPT ![Server] =
                    [StartCall("af_open", r.firmware_file, v, d, r.description)
                        EXCEPT !.data = SourceData(r.firmware_file)]]
    /\ calls' = calls + 1
    /\ UNCHANGED <<catalog, store, ingested, faults, conn>>
    /\ UNCHANGED probe

\* line 88: open(new_filename, 'wb') creates or truncates the destination
AddFirmwareOpen ==
    /\ up[Server].pc = "af_open"
    /\ \/ /\ store' = [store EXCEPT ![DestName(up[Server])] = File(<<>>)]
          /\ up' = [up EXCEPT ![Server].pc = "af_write"]
          /\ UNCHANGED faults
       \/ /\ MayFail
          /\ up' = [up EXCEPT ![Server] = Return(@, "raised", "open")]
          /\ faults' = faults + 1
          /\ UNCHANGED store
    /\ UNCHANGED <<catalog, calls, ingested, conn>>
    /\ UNCHANGED probe

\* line 89: dst.write(data); a failing write may have written any proper prefix
AddFirmwareWrite ==
    /\ up[Server].pc = "af_write"
    /\ LET u == up[Server]
       IN \/ /\ store' = [store EXCEPT ![DestName(u)] = File(u.data)]
             /\ up' = [up EXCEPT ![Server].pc = "af_load"]
             /\ UNCHANGED faults
          \/ /\ MayFail
             /\ Len(u.data) > 0
             /\ \E k \in 0..(Len(u.data) - 1) :
                   store' = [store EXCEPT ![DestName(u)] = File(SubSeq(u.data, 1, k))]
             /\ up' = [up EXCEPT ![Server] = Return(@, "raised", "copy")]
             /\ faults' = faults + 1
    /\ UNCHANGED <<catalog, calls, ingested, conn>>
    /\ UNCHANGED probe

\* lines 91-123: digest and size of the destination, json.load of the catalog
\* (which raises on a missing or unparseable document), the upsert and
\* latest_version
AddFirmwareLoad ==
    /\ up[Server].pc = "af_load"
    /\ LET u    == up[Server]
           dest == DestName(u)
       IN IF catalog.state = "valid" /\ store[dest].exists
          THEN LET entry == NewServerEntry(u, store[dest].data)
                   hit   == MatchIndex(catalog.doc.firmware_entries,
                                       u.device_type, u.version)
                   md    == Upsert(catalog.doc, entry)
               IN up' = [up EXCEPT
                            ![Server].pc = "af_save_open",
                            ![Server].loaded = catalog.doc,
                            ![Server].updated = (hit > 0),
                            ![Server].metadata =
                                IF PkgVersionGreater(u.version, md.latest_version)
                                THEN [md EXCEPT !.latest_version = u.version]
                                ELSE md]
          ELSE up' = [up EXCEPT ![Server] = Return(@, "raised", "load")]
    /\ UNCHANGED <<catalog, store, calls, ingested, faults, conn>>
    /\ UNCHANGED probe

\* line 126: open(METADATA_FILE, 'w')
AddFirmwareSaveOpen ==
    /\ up[Server].pc = "af_save_open"
    /\ \/ /\ catalog' = OpenForWrite(catalog)
          /\ up' = [up EXCEPT ![Server].pc = "af_save_dump"]
          /\ UNCHANGED faults
       \/ /\ MayFail
          /\ up' = [up EXCEPT ![Server] = Return(@, "raised", "save")]
          /\ faults' = faults + 1
          /\ UNCHANGED catalog
    /\ UNCHANGED <<store, calls, ingested, conn>>
    /\ UNCHANGED probe

\* lines 127-129: json.dump, then return True
AddFirmwareSaveDump ==
    /\ up[Server].pc = "af_save_dump"
    /\ \/ /\ catalog' \in DumpResults(catalog, up[Server].metadata)
          /\ up' = [up EXCEPT ![Server] = Return(@, "True", "")]
          /\ ingested' = ingested \cup
                 {[device_type |-> up[Server].device_type,
                   version |-> up[Server].version]}
          /\ UNCHANGED faults
       \/ /\ MayFail
          /\ catalog' = PartialCatalog
          /\ up' = [up EXCEPT ![Server] = Return(@, "raised", "save")]
          /\ faults' = faults + 1
          /\ UNCHANGED ingested
    /\ UNCHANGED <<store, calls, conn>>
    /\ UNCHANGED probe

---------------------------------------------------------------------------
(* Specifications of ingestion *)


\* the arguments and results of an earlier, successful
\* upload_firmware("B.bin", "1.10", "dev2", "second")
SeedCall ==
    [StartCall("idle", "B.bin", <<1, 10>>, "dev2", "second")
        EXCEPT !.file_size = Len(SourceData("B.bin")),
               !.checksum = calculate_stm32_crc32(SourceData("B.bin"))]

\* /firmware after that call
SeededCatalog ==
    ValidCatalog(UpdateLatest(Upsert(EmptyMetadata, NewEntry(SeedCall)),
                              SeedCall.version))

SeededStore ==
    [n \in BinaryNames |->
        IF n = DestName(SeedCall) THEN File(SourceData("B.bin")) ELSE NoFile]

\* a completed upload_firmware(firmware_file, version, device_type, description)
DoneCall(firmware_file, version, device_type, description) ==
    [StartCall("idle", firmware_file, version, device_type, description)
        EXCEPT !.file_size = Len(SourceData(firmware_file)),
               !.checksum = calculate_stm32_crc32(SourceData(firmware_file))]

\* the catalog after a successful call on it (lines 134-172)
AfterUpload(metadata, u) == UpdateLatest(Upsert(metadata, NewEntry(u)), u.version)

\* two more successful uploads after the first:
\* upload_firmware("A.bin", "0.0.0", "dev1", "first") and
\* upload_firmware("A.bin", "1.2", "dev2", "first")
ZeroCall == DoneCall("A.bin", <<0, 0, 0>>, "dev1", "first")

OlderCall == DoneCall("A.bin", <<1, 2>>, "dev2", "first")

ShelfCatalog ==
    ValidCatalog(AfterUpload(AfterUpload(SeededCatalog.doc, ZeroCall), OlderCall))

\* a binary of more than two chunks of 1024 bytes
BigFile == [i \in 1..((2 * CopyChunkSize) + 1) |-> i % 251]

\* /firmware after these uploads and after an upload of BigFile as dev1 1.2
\* that copied the file and then failed (lines 122-132), leaving it uncatalogued
ShelfStore ==
    [n \in BinaryNames |->
        CASE n = DestName(SeedCall)  -> File(SourceData("B.bin"))
          [] n = DestName(ZeroCall)  -> File(SourceData("A.bin"))
          [] n = DestName(OlderCall) -> File(SourceData("A.bin"))
          [] n = FileName("dev1", <<1, 2>>, "bin") -> File(BigFile)
          [] OTHER -> NoFile]

\* /firmware at the start: brand new (no metadata.json yet, or the empty one
\* that setup_storage writes), or as the earlier upload left it
InitFiles ==
    \/ /\ catalog \in {MissingCatalog, ValidCatalog(EmptyMetadata)}
       /\ store = [n \in BinaryNames |-> NoFile]
       /\ ingested = {}
    \/ /\ catalog = SeededCatalog
       /\ store = SeededStore
       /\ ingested = {[device_type |-> SeedCall.device_type,
                       version |-> SeedCall.version]}

InitHistory ==
    /\ calls = 0
    /\ faults = 0
    /\ conn = NoConn
    /\ probe = NoProbe

\* One call at a time: the tool (process tool1) and the serving process's
\* add_firmware, each started only when no other call is running.
InitSeq ==
    /\ InitFiles
    /\ InitHistory
    /\ up = [p \in Procs |-> IF p = "tool2" THEN OffProc ELSE IdleProc]

UploadSteps(p) ==
    \/ EnsureMetadata(p)
    \/ CopyOpen(p)
    \/ CopyChunk(p)
    \/ GatherInfo(p)
    \/ LoadMetadata(p)
    \/ SaveOpen(p)
    \/ SaveDump(p)

NextSeq ==
    \/ \E p \in Uploaders : (AllQuiet /\ StartUpload(p)) \/ UploadSteps(p)
    \/ AllQuiet /\ AddFirmwareRead
    \/ AddFirmwareOpen
    \/ AddFirmwareWrite
    \/ AddFirmwareLoad
    \/ AddFirmwareSaveOpen
    \/ AddFirmwareSaveDump

SpecSeq == InitSeq /\ [][NextSeq]_vars

\* Two runs of the tool, as separate processes against the same /firmware
InitConc ==
    /\ InitFiles
    /\ InitHistory
    /\ up = [p \in Procs |-> IF p = Server THEN OffProc ELSE IdleProc]

NextConc == \E p \in Uploaders : StartUpload(p) \/ UploadSteps(p)

SpecConc == InitConc /\ [][NextConc]_vars

---------------------------------------------------------------------------
(* The serving process.  A request is its request line, a sequence of      *)
(* tokens (method, target, version), and its header lines.  A target is    *)
(* the path, a sequence of segments ("/download/x" is <<download, x>>, "/" *)
(* is the empty sequence), and the query parameters.  A response is the    *)
(* sequence of the pieces given to client_socket.send.                     *)

HTTP_200 == 200

HTTP_401 == 401

HTTP_404 == 404

HTTP_500 == 500

API_USERNAME == "admin"

API_PASSWORD == "admin"

DownloadChunkSize == 1024

\* header lines before the blank line, in one request
MaxHeaderLines == 2

MetadataName == Literal("metadata.json")

RootPath == <<>>

ListPath == <<Literal("api"), Literal("firmware"), Literal("list")>>

LatestPath == <<Literal("api"), Literal("firmware"), Literal("latest")>>

MetadataPath == <<Literal("firmware"), MetadataName>>

\* path.startswith('/download/')
StartsWithDownload(path) == Len(path) >= 2 /\ path[1] = Literal("download")

\* a header value: its first six characters and the rest
Value(prefix, rest) == [prefix |-> prefix, rest |-> rest]

KV(key, value) == [kind |-> "kv", key |-> key, value |-> value]

\* a line without ':'
JunkLine == [kind |-> "junk", key |-> "", value |-> Value("", "")]

BlankLine == [kind |-> "blank", key |-> "", value |-> Value("", "")]

\* ubinascii.a2b_base64(s).decode(): the decoded text as its ':'-separated
\* parts with the ':' between them; not ok when the decoding raises
A2bBase64(s) ==
    CASE s = "YWRtaW46YWRtaW4="     -> [ok |-> TRUE, text |-> <<"admin", ":", "admin">>]
      [] s = "YWRtaW46d3Jvbmc="     -> [ok |-> TRUE, text |-> <<"admin", ":", "wrong">>]
      [] s = "YWRtaW46YWRtaW46eA==" ->
            [ok |-> TRUE, text |-> <<"admin", ":", "admin", ":", "x">>]
      [] s = "YWRtaW4="             -> [ok |-> TRUE, text |-> <<"admin">>]
      [] OTHER                      -> [ok |-> FALSE, text |-> <<>>]

\* key.strip().lower()
Lower(key) ==
    CASE key = "Authorization" -> "authorization"
      [] key = "AUTHORIZATION" -> "authorization"
      [] key = "Host"          -> "host"
      [] OTHER                 -> key

\* d[k] = v
Put(d, k, v) == [x \in (DOMAIN d) \cup {k} |-> IF x = k THEN v ELSE d[x]]

EmptyDict == [x \in {} |-> x]

\* the header loop: every line with ':' up to the first blank line
RECURSIVE ParseHeaders(_, _)
ParseHeaders(lines, headers) ==
    IF Len(lines) = 0 THEN headers
    ELSE IF lines[1].kind = "blank" THEN headers
    ELSE ParseHeaders(Tail(lines),
                      IF lines[1].kind = "kv"
                      THEN Put(headers, Lower(lines[1].key), lines[1].value)
                      ELSE headers)

\* the query loop: every parameter with '='
RECURSIVE ParseQuery(_, _)
ParseQuery(params, query_params) ==
    IF Len(params) = 0 THEN query_params
    ELSE ParseQuery(Tail(params),
                    IF params[1].eq
                    THEN Put(query_params, params[1].key, params[1].value)
                    ELSE query_params)

\* parse_request: (None, None, None, None) is ok = FALSE; "method, path, _ =
\* parts" raises on more than three tokens
parse_request(request) ==
    LET parts == request.line
    IN IF Len(parts) < 3
       THEN [ok |-> FALSE, raises |-> FALSE, method |-> "", path |-> <<>>,
             headers |-> EmptyDict, query_params |-> EmptyDict]
       ELSE IF Len(parts) > 3
       THEN [ok |-> FALSE, raises |-> TRUE, method |-> "", path |-> <<>>,
             headers |-> EmptyDict, query_params |-> EmptyDict]
       ELSE [ok |-> TRUE, raises |-> FALSE, method |-> parts[1],
             path |-> parts[2].segs,
             headers |-> ParseHeaders(request.headers, EmptyDict),
             query_params |-> ParseQuery(parts[2].query, EmptyDict)]

\* index of the first ":" of a decoded text, 0 if none
FirstColon(text) ==
    LET at == {i \in 1..Len(text) : text[i] = ":"}
    IN IF at = {} THEN 0 ELSE CHOOSE i \in at : \A j \in at : i <= j

\* the check without the password comparison
check_auth_user_only(headers) ==
    /\ "authorization" \in DOMAIN headers
    /\ headers["authorization"].prefix = "Basic "
    /\ LET decoded == A2bBase64(headers["authorization"].rest)
           colon   == FirstColon(decoded.text)
       IN /\ decoded.ok
          /\ colon > 0
          /\ SubSeq(decoded.text, 1, colon - 1) = <<API_USERNAME>>

\* check_auth: decoded.split(':', 1) must give the configured pair
check_auth(headers) ==
    /\ "authorization" \in DOMAIN headers
    /\ headers["authorization"].prefix = "Basic "
    /\ LET decoded == A2bBase64(headers["authorization"].rest)
           colon   == FirstColon(decoded.text)
       IN /\ decoded.ok
          /\ colon > 0
          /\ SubSeq(decoded.text, 1, colon - 1) = <<API_USERNAME>>
          /\ SubSeq(decoded.text, colon + 1, Len(decoded.text)) = <<API_PASSWORD>>

\* the routes main.py serves without credentials, less the metadata document
AuthExemptDownloadOnly(path) == StartsWithDownload(path)

\* main.py line 123: the routes served without credentials
AuthExemptMain(path) == StartsWithDownload(path) \/ path = MetadataPath

\* server.py line 205
AuthExemptServer(path) == StartsWithDownload(path)

NoEntry ==
    [version |-> <<>>, device_type |-> "", filename |-> Literal(""), size |-> 0,
     checksum |-> <<>>, md5 |-> <<>>, description |-> ""]

NoBody == [state |-> "none", doc |-> NoDoc]

\* a file opened for writing: created or truncated
OpenTruncating(file) ==
    IF "state" \in DOMAIN file THEN PartialCatalog ELSE File(<<>>)

\* open(path, 'r'), open(path, 'rb') and os.stat, the only file operations of
\* handle_request: the file is as before
OpenForRead(file) == file

\* /firmware after a request that opened these names
CatalogAfter(opened) ==
    IF MetadataName \in opened THEN OpenForRead(catalog) ELSE catalog

StoreAfter(opened) ==
    [n \in DOMAIN store |-> IF n \in opened THEN OpenForRead(store[n]) ELSE store[n]]

\* one send: a status line (0: none), header names, the Content-Length value
\* (-1: none), and the body: a fixed text, file bytes, a catalog document (as
\* the file holds it, or as json.dumps writes it) or one entry
Piece(status, headers, text) ==
    [status |-> status, headers |-> headers, length |-> -1, text |-> text,
     data |-> <<>>, doc |-> NoBody, entry |-> NoEntry]

\* what the try block of handle_request has done when it ends
Outcome(sent, opened, handler, closed, raised) ==
    [sent |-> sent, opened |-> opened, handler |-> handler, closed |-> closed,
     raised |-> raised]

\* the file /firmware/<name> for a path[10:] of one segment; longer ones name
\* nothing in /firmware
DownloadTarget(path) ==
    IF Len(path) = 2 /\ path[2] \in DOMAIN store THEN store[path[2]] ELSE NoFile

\* the file sent in one piece
FileInOnePiece(data) ==
    IF Len(data) = 0 THEN <<>> ELSE <<[Piece(0, {}, "") EXCEPT !.data = data]>>

\* the sends of the loop "chunk = f.read(1024); while chunk: ..."
RECURSIVE FileChunks(_)
FileChunks(data) ==
    IF Len(data) = 0 THEN <<>>
    ELSE LET n == Min(DownloadChunkSize, Len(data))
         IN <<[Piece(0, {}, "") EXCEPT !.data = SubSeq(data, 1, n)]>>
            \o FileChunks(SubSeq(data, n + 1, Len(data)))

\* the '/download/' branch (main.py 170-187, server.py 270-294); the catalog
\* document itself is /firmware/metadata.json and is sent whole
Download(path, headers) ==
    IF Len(path) = 2 /\ path[2] = MetadataName
    THEN IF catalog.state = "missing"
         THEN Outcome(<<Piece(HTTP_404, {"Content-Type"}, "File not found")>>,
                      {MetadataName}, "download", 0, FALSE)
         ELSE Outcome(<<Piece(HTTP_200, headers, ""),
                        [Piece(0, {}, "") EXCEPT !.doc = catalog]>>,
                      {MetadataName}, "download", 0, FALSE)
    ELSE LET file == DownloadTarget(path)
         IN IF file.exists
            THEN Outcome(<<[Piece(HTTP_200, headers, "")
                               EXCEPT !.length = Len(file.data)]>>
                         \o FileChunks(file.data),
                         {path[2]}, "download", 0, FALSE)
            ELSE Outcome(<<Piece(HTTP_404, {"Content-Type"}, "File not found")>>,
                         {path[Len(path)]}, "download", 0, FALSE)

\* the '/' and '/api/firmware/list' branches: json.load of the catalog, which
\* raises on a missing or unparseable document
ServeCatalog(handler, ctype_text) ==
    IF catalog.state = "valid"
    THEN Outcome(<<[Piece(HTTP_200, {"Content-Type"}, ctype_text)
                       EXCEPT !.doc = catalog]>>,
                 {MetadataName}, handler, 0, FALSE)
    ELSE Outcome(<<>>, {MetadataName}, handler, 0, TRUE)

NotFound ==
    Outcome(<<Piece(HTTP_404, {"Content-Type"}, "Endpoint not found")>>,
            {}, "not_found", 0, FALSE)

\* main.py lines 113-192: the try block
MainTry(request) ==
    LET pr == parse_request(request)
    IN IF pr.raises THEN Outcome(<<>>, {}, "none", 0, TRUE)
       ELSE IF ~pr.ok
       THEN Outcome(<<Piece(HTTP_404, {}, "")>>, {}, "none", 1, FALSE)
       ELSE IF ~AuthExemptMain(pr.path) /\ ~check_auth(pr.headers)
       THEN Outcome(<<Piece(HTTP_401, {}, ""),
                      Piece(0, {"WWW-Authenticate"}, ""),
                      Piece(0, {"Content-Type"}, "Authentication required")>>,
                    {}, "none", 1, FALSE)
       ELSE IF pr.path = RootPath THEN ServeCatalog("root", "status page")
       ELSE IF pr.path = ListPath THEN ServeCatalog("list", "")
       ELSE IF pr.path = MetadataPath
       THEN IF catalog.state = "missing"
            THEN Outcome(<<Piece(HTTP_500, {"Content-Type"}, "Internal Server Error")>>,
                         {MetadataName}, "metadata", 0, FALSE)
            ELSE Outcome(<<[Piece(HTTP_200, {"Content-Type"}, "")
                               EXCEPT !.doc = catalog]>>,
                         {MetadataName}, "metadata", 0, FALSE)
       ELSE IF StartsWithDownload(pr.path)
       THEN Download(pr.path, {"Content-Length", "Content-Type"})
       ELSE NotFound

\* the client socket never fails
NoDrop == -1

\* socket operations of one connection that a failure may follow
MaxSockOps == 2

\* the number of socket operations of a connection (recv, then each send) that
\* succeed before the peer drops it; every later recv or send raises OSError
Drops == {NoDrop} \cup (0..MaxSockOps)

\* the n-th send of a connection succeeds
SendSucceeds(drop, n) == drop = NoDrop \/ n <= drop - 1

\* the try block on such a socket: a failing recv raises before anything else
\* is done, and the first failing send raises with the earlier sends made;
\* the sends of the inner except clauses (main.py 164-168, 184-187, server.py
\* 290-294) fail as well, so the exception reaches the outer except clause
OnSocket(t, drop) ==
    IF drop = NoDrop THEN t
    ELSE IF drop = 0 THEN Outcome(<<>>, {}, "none", 0, TRUE)
    ELSE IF Len(t.sent) > drop - 1
    THEN [t EXCEPT !.sent = SubSeq(@, 1, drop - 1), !.closed = 0, !.raised = TRUE]
    ELSE t

\* the binary never fails to open or to read
NoFileFault == -1

\* reads of one binary that a failure may follow
MaxFileOps == 2

\* the number of f.read(1024) calls of a download that succeed before the
\* file fails (0: open(filepath, 'rb') or the first read raises OSError)
FileFaults == {NoFileFault} \cup (0..MaxFileOps)

\* the try block of the download branch on such a file, whose os.stat has
\* succeeded: the headers and the chunks read so far are sent, and the except
\* clause (main.py 184-187, server.py 290-294) sends its 404 response
OnFile(t, reads) ==
    IF /\ reads # NoFileFault
       /\ t.handler = "download"
       /\ Len(t.sent) >= 1
       /\ t.sent[1].status = HTTP_200
       /\ reads <= Len(t.sent) - 1
    THEN [t EXCEPT !.sent = SubSeq(@, 1, 1 + reads)
                            \o <<Piece(HTTP_404, {"Content-Type"}, "File not found")>>]
    ELSE t

\* handle_request of main.py without its finally clause
handle_request_main_no_finally(request, drop, reads) ==
    [OnSocket(OnFile(MainTry(request), reads), drop) EXCEPT !.raised = FALSE]

\* main.py lines 112-200: the try block, the except clause (one more send,
\* whose failure leaves handle_request as an exception) and the finally clause
\* (one more close)
handle_request_main(request, drop, reads) ==
    LET t == OnSocket(OnFile(MainTry(request), reads), drop)
    IN IF t.raised /\ ~SendSucceeds(drop, Len(t.sent) + 1)
       THEN [t EXCEPT !.closed = @ + 1]
       ELSE [t EXCEPT !.sent = IF t.raised
                                THEN @ \o <<Piece(HTTP_500, {"Content-Type"},
                                                  "Internal error")>>
                                ELSE @,
                      !.closed = @ + 1,
                      !.raised = FALSE]

\* parse_version of server.py (tuple(map(int, ...))) compared with '>'
TupleGreater(a, b) == ListLess(b, a)

\* server.py lines 249-257: the scan for the newest entry of a device type
RECURSIVE FindLatest(_, _, _, _)
FindLatest(entries, device_type, latest_version, latest_entry) ==
    IF Len(entries) = 0 THEN latest_entry
    ELSE IF /\ entries[1].device_type = device_type
            /\ TupleGreater(entries[1].version, latest_version)
         THEN FindLatest(Tail(entries), device_type, entries[1].version, entries[1])
         ELSE FindLatest(Tail(entries), device_type, latest_version, latest_entry)

\* server.py lines 242-268
ServeLatest(query_params) ==
    IF catalog.state # "valid"
    THEN Outcome(<<>>, {MetadataName}, "latest", 0, TRUE)
    ELSE LET device_type == IF "device_type" \in DOMAIN query_params
                            THEN query_params["device_type"] ELSE ""
             latest_entry == FindLatest(catalog.doc.firmware_entries, device_type,
                                        <<0, 0, 0>>, NoEntry)
         IN IF latest_entry # NoEntry
            THEN Outcome(<<[Piece(HTTP_200, {"Content-Type"}, "")
                               EXCEPT !.entry = latest_entry]>>,
                         {MetadataName}, "latest", 0, FALSE)
            ELSE Outcome(<<Piece(HTTP_404, {"Content-Type"},
                                 "No firmware found for specified device type")>>,
                         {MetadataName}, "latest", 0, FALSE)

\* server.py lines 191-301: the try block.  HTTP_400 is not defined in
\* server.py, so the branch for an unparsed request raises NameError.
ServerTry(request) ==
    LET pr == parse_request(request)
    IN IF pr.raises THEN Outcome(<<>>, {}, "none", 0, TRUE)
       ELSE IF ~pr.ok THEN Outcome(<<>>, {}, "none", 0, TRUE)
       ELSE IF ~AuthExemptServer(pr.path) /\ ~check_auth(pr.headers)
       THEN Outcome(<<Piece(HTTP_401, {}, ""),
                      Piece(0, {"WWW-Authenticate"}, ""),
                      Piece(0, {"Content-Type"}, ""),
                      Piece(0, {}, "Authentication required")>>,
                    {}, "none", 1, FALSE)
       ELSE IF pr.path = RootPath THEN ServeCatalog("root", "status page")
       ELSE IF pr.path = ListPath THEN ServeCatalog("list", "")
       ELSE IF pr.path = LatestPath THEN ServeLatest(pr.query_params)
       ELSE IF StartsWithDownload(pr.path)
       THEN Download(pr.path, {"Content-Type", "Content-Length", "Content-Disposition"})
       ELSE NotFound

\* server.py lines 190-315: the try block, the except clause (one more send
\* inside its own try, so its failure is dropped) and the finally clause
handle_request_server(request, drop, reads) ==
    LET t == OnSocket(OnFile(ServerTry(request), reads), drop)
    IN [t EXCEPT !.sent = IF t.raised /\ SendSucceeds(drop, Len(t.sent) + 1)
                          THEN @ \o <<Piece(HTTP_500, {"Content-Type"},
                                            "Internal server error")>>
                          ELSE @,
                 !.closed = @ + 1,
                 !.raised = FALSE]

---------------------------------------------------------------------------
(* The requests of the model *)

Target(segs, query) == [segs |-> segs, query |-> query]

Param(key, value, eq) == [key |-> key, value |-> value, eq |-> eq]

Paths ==
    {RootPath, ListPath, LatestPath, MetadataPath,
     <<Literal("download"), DestName(SeedCall)>>,
     <<Literal("download"), FileName("dev1", <<1, 2>>, "bin")>>,
     <<Literal("download"), MetadataName>>,
     <<Literal("download")>>,
     <<Literal("nope")>>}

Queries ==
    {<<>>, <<Param("device_type", "dev2", TRUE)>>,
     <<Param("device_type", "dev1", TRUE)>>}

\* every path without a query, and the two catalog routes with each query
Targets ==
    {Target(p, <<>>) : p \in Paths}
    \cup {Target(p, q) : p \in {ListPath, LatestPath}, q \in Queries}

HeaderLines ==
    {BlankLine, JunkLine,
     KV("Authorization", Value("Basic ", "YWRtaW46YWRtaW4=")),
     KV("AUTHORIZATION", Value("Basic ", "YWRtaW46d3Jvbmc=")),
     KV("authorization", Value("Basic ", "YWRtaW46YWRtaW46eA==")),
     KV("Authorization", Value("Basic ", "YWRtaW4=")),
     KV("Authorization", Value("Basic ", "!!!")),
     KV("Authorization", Value("Bearer", " YWRtaW46YWRtaW4=")),
     KV("Host", Value("fota", ""))}

HeaderBlocks == UNION {[1..n -> HeaderLines] : n \in 0..MaxHeaderLines}

RequestLines ==
    {<<>>, <<"GET">>, <<"GET", Target(ListPath, <<>>)>>,
     <<"GET", Target(ListPath, <<>>), "HTTP/1.1", "x">>}
    \cup {<<m, t, "HTTP/1.1">> : m \in {"GET", "POST"}, t \in Targets}

Requests == {[line |-> l, headers |-> h] : l \in RequestLines, h \in HeaderBlocks}

---------------------------------------------------------------------------
(* run_server: accept a connection, handle it, accept the next *)

\* history: whether the connection before this one asked for the binary of a
\* catalog entry and was answered 404, and the catalog document at that time
NoPrior == [missed |-> FALSE, catalog |-> MissingCatalog]

Waiting(variant) ==
    [handled |-> FALSE, booted |-> TRUE, variant |-> variant,
     request |-> [line |-> <<>>, headers |-> <<>>], drop |-> NoDrop,
     sent |-> <<>>, opened |-> {}, handler |-> "none", closed |-> 0,
     raised |-> FALSE, prior |-> NoPrior, reads |-> NoFileFault]

\* main() before setup_storage
Booting(variant) == [Waiting(variant) EXCEPT !.booted = FALSE]

Handled(variant, request, drop, reads, o) ==
    [handled |-> TRUE, booted |-> TRUE, variant |-> variant, request |-> request,
     drop |-> drop, sent |-> o.sent, opened |-> o.opened, handler |-> o.handler,
     closed |-> o.closed, raised |-> o.raised, prior |-> conn.prior,
     reads |-> reads]

\* the name is the filename of a catalog entry
Catalogued(name) ==
    /\ catalog.state = "valid"
    /\ \E i \in 1..Len(catalog.doc.firmware_entries) :
          catalog.doc.firmware_entries[i].filename = name

\* the connection just handled, as the next one remembers it
PriorOf(c) ==
    IF /\ c.handler = "download"
       /\ Len(c.sent) >= 1
       /\ c.sent[1].status = HTTP_404
       /\ \E name \in c.opened : Catalogued(name)
    THEN [missed |-> TRUE, catalog |-> catalog]
    ELSE NoPrior

\* an exception left handle_request: run_server of main.py has no handler for
\* it and ends; server.py lines 329-336 would catch it
Terminated == conn.handled /\ conn.raised /\ conn.variant = "main"

\* the socket failures the environment may still inject
SocketFaults == IF MayFail THEN Drops ELSE {NoDrop}

\* the file failures it may inject into a connection with this socket
ReadFaults(drop) == IF MayFail /\ drop = NoDrop THEN FileFaults ELSE {NoFileFault}

\* main.py lines 209-214: one connection, handled to its end
HandleRequestMain ==
    /\ conn.variant = "main"
    /\ conn.booted
    /\ ~conn.handled
    /\ \E request \in Requests, drop \in SocketFaults :
          \E reads \in ReadFaults(drop) :
             /\ conn' = Handled("main", request, drop, reads,
                                handle_request_main(request, drop, reads))
             /\ faults' = IF drop = NoDrop /\ reads = NoFileFault
                          THEN faults ELSE faults + 1
    /\ catalog' = CatalogAfter(conn'.opened)
    /\ store' = StoreAfter(conn'.opened)
    /\ UNCHANGED <<up, calls, ingested>>
    /\ UNCHANGED probe

\* server.py lines 328-334
HandleRequestServer ==
    /\ conn.variant = "server"
    /\ conn.booted
    /\ ~conn.handled
    /\ \E request \in Requests, drop \in SocketFaults :
          \E reads \in ReadFaults(drop) :
             /\ conn' = Handled("server", request, drop, reads,
                                handle_request_server(request, drop, reads))
             /\ faults' = IF drop = NoDrop /\ reads = NoFileFault
                          THEN faults ELSE faults + 1
    /\ catalog' = CatalogAfter(conn'.opened)
    /\ store' = StoreAfter(conn'.opened)
    /\ UNCHANGED <<up, calls, ingested>>
    /\ UNCHANGED probe

\* back at sock.accept()
AcceptNext ==
    /\ conn.handled
    /\ ~Terminated
    /\ conn' = [Waiting(conn.variant) EXCEPT !.prior = PriorOf(conn)]
    /\ UNCHANGED <<catalog, store, up, calls, ingested, faults>>
    /\ UNCHANGED probe

\* /firmware as ingestion leaves it: empty, after the earlier upload, and after
\* a later upload whose json.dump failed; or after the earlier upload with its
\* binary deleted by hand since; the client sockets do not fail
InitServe ==
    /\ \/ /\ catalog \in {ValidCatalog(EmptyMetadata), SeededCatalog}
          /\ store = [n \in BinaryNames |-> NoFile]
       \/ /\ catalog \in {SeededCatalog, PartialCatalog}
          /\ store = SeededStore
       \/ /\ catalog = ShelfCatalog
          /\ store = ShelfStore
    /\ ingested = {}
    /\ calls = 0
    /\ faults = MaxFaults
    /\ up = [p \in Procs |-> OffProc]
    /\ conn \in {Waiting("main"), Waiting("server")}
    /\ probe = NoProbe

NextServe == HandleRequestMain \/ HandleRequestServer \/ AcceptNext

SpecServe == InitServe /\ [][NextServe]_vars

---------------------------------------------------------------------------
(* main(): setup_storage, then run_server on client sockets that may fail *)

\* the path of the catalog document, as open and os.stat take it
METADATA_FILE == <<Literal("firmware"), MetadataName>>

\* os.listdir(FIRMWARE_DIR): the names in the directory, without the directory
ListDir ==
    {<<n>> : n \in {m \in DOMAIN store : store[m].exists}}
    \cup (IF catalog.state = "missing" THEN {} ELSE {<<MetadataName>>})

\* main.py lines 23-35: os.stat(METADATA_FILE) decides
SetupStorageMain ==
    /\ conn.variant = "main"
    /\ ~conn.booted
    /\ catalog' = IF catalog.state = "missing" THEN ValidCatalog(EmptyMetadata)
                                               ELSE catalog
    /\ conn' = Waiting("main")
    /\ UNCHANGED <<store, up, calls, ingested, faults>>
    /\ UNCHANGED probe

\* server.py lines 23-36: "METADATA_FILE not in os.listdir(FIRMWARE_DIR)" decides
SetupStorageServer ==
    /\ conn.variant = "server"
    /\ ~conn.booted
    /\ catalog' = IF METADATA_FILE \notin ListDir THEN ValidCatalog(EmptyMetadata)
                                                  ELSE catalog
    /\ conn' = Waiting("server")
    /\ UNCHANGED <<store, up, calls, ingested, faults>>
    /\ UNCHANGED probe

\* /firmware at power-up: brand new, or as ingestion left it
InitMain ==
    /\ \/ /\ catalog \in {MissingCatalog, ValidCatalog(EmptyMetadata)}
          /\ store = [n \in BinaryNames |-> NoFile]
       \/ /\ catalog \in {SeededCatalog, PartialCatalog}
          /\ store = SeededStore
       \/ /\ catalog = ShelfCatalog
          /\ store = ShelfStore
    /\ ingested = {}
    /\ calls = 0
    /\ faults = 0
    /\ up = [p \in Procs |-> OffProc]
    /\ conn \in {Booting("main"), Booting("server")}
    /\ probe = NoProbe

NextMain ==
    \/ SetupStorageMain
    \/ SetupStorageServer
    \/ HandleRequestMain
    \/ HandleRequestServer
    \/ AcceptNext

SpecMain == InitMain /\ [][NextMain]_vars

---------------------------------------------------------------------------
(* The pure functions, each applied to arguments drawn from bounded sets *)

\* components of a version string
VersionParts == {0, 1, 2, 9, 10}

\* components in a version string
MaxVersionLen == 2

\* the well-formed version strings: "1.10" is <<1, 10>>
VersionStrings == UNION {[1..n -> VersionParts] : n \in 1..MaxVersionLen}

ByteValues == {0, 1, 255}

\* bytes in a short file
MaxDataLen == 5

\* a file of n bytes
LongFile(n) == [i \in 1..n |-> (7 * i) % 256]

\* files shorter than a word, of several words, and longer than one read of
\* CrcChunkSize bytes by 1, 2 and 4 bytes
Files ==
    UNION {[1..n -> ByteValues] : n \in 0..MaxDataLen}
    \cup {<<1, 2, 3>>, <<7>>, <<1, 2, 3, 4, 5>>, <<255, 255, 255, 255>>}
    \cup {LongFile(CrcChunkSize + k) : k \in {1, 2, 4}}

\* sizes of the reads of the checksum loop: one byte, not a multiple of four,
\* one word, the configured size and a larger one
ChunkSizes == {1, 3, 4, CrcChunkSize, 4096}

CompareProbe(version1, version2) ==
    [op |-> "compare_versions", version1 |-> version1, version2 |-> version2,
     done |-> FALSE, result |-> 0]

CrcProbe(op, data, chunk_size) ==
    [op |-> op, data |-> data, chunk_size |-> chunk_size, done |-> FALSE,
     digest |-> <<>>]

\* compare_versions(version1, version2)
CompareVersions ==
    /\ probe.op = "compare_versions"
    /\ ~probe.done
    /\ probe' = [probe EXCEPT !.done = TRUE,
                              !.result = compare_versions(probe.version1,
                                                          probe.version2)]
    /\ UNCHANGED <<catalog, store, up, calls, ingested, faults, conn>>

\* server.py lines 342-343 and 252: the tuples of parse_version(version1) and
\* parse_version(version2) compared as Python compares tuples, a proper prefix
\* being the smaller; the result is (t1 > t2) - (t1 < t2)
ParseVersions ==
    /\ probe.op = "parse_version"
    /\ ~probe.done
    /\ probe' = [probe EXCEPT
                    !.done = TRUE,
                    !.result = (IF TupleGreater(probe.version1, probe.version2)
                                THEN 1 ELSE 0)
                               - (IF TupleGreater(probe.version2, probe.version1)
                                  THEN 1 ELSE 0)]
    /\ UNCHANGED <<catalog, store, up, calls, ingested, faults, conn>>

\* calculate_stm32_crc32(filename) on a file holding data
CalculateCrc ==
    /\ probe.op = "calculate_stm32_crc32"
    /\ ~probe.done
    /\ probe' = [probe EXCEPT !.done = TRUE,
                              !.digest = calculate_stm32_crc32(probe.data)]
    /\ UNCHANGED <<catalog, store, up, calls, ingested, faults, conn>>

\* the loop of calculate_stm32_crc32 (lines 22-64) when its reads return
\* chunk_size bytes
CalculateCrcInReads ==
    /\ probe.op = "reads"
    /\ ~probe.done
    /\ probe' = [probe EXCEPT !.done = TRUE,
                              !.digest = Hex08(CrcStream(CrcInit, probe.data,
                                                         probe.chunk_size))]
    /\ UNCHANGED <<catalog, store, up, calls, ingested, faults, conn>>

InitPure ==
    /\ catalog = MissingCatalog
    /\ store = [n \in BinaryNames |-> NoFile]
    /\ up = [p \in Procs |-> OffProc]
    /\ calls = 0
    /\ ingested = {}
    /\ faults = 0
    /\ conn = NoConn
    /\ probe \in {CompareProbe(a, b) : a, b \in VersionStrings}
                 \cup {[CompareProbe(a, b) EXCEPT !.op = "parse_version"] :
                          a, b \in VersionStrings}
                 \cup {CrcProbe("calculate_stm32_crc32", d, CrcChunkSize) : d \in Files}
                 \cup {CrcProbe("reads", d, n) : d \in Files, n \in ChunkSizes}

NextPure == CompareVersions \/ ParseVersions \/ CalculateCrc \/ CalculateCrcInReads

SpecPure == InitPure /\ [][NextPure]_vars

---------------------------------------------------------------------------
(* Properties of ingestion *)

\* the serving process has not run add_firmware
ServerNeverIngested == up[Server].pc \in {"idle", "off"} /\ up[Server].ret = "none"

PairOf(e) == [device_type |-> e.device_type, version |-> e.version]

\* the (device_type, version) pairs of a document's entries
Pairs(doc) == {PairOf(doc.firmware_entries[i]) : i \in 1..Len(doc.firmware_entries)}

NoDuplicatePairs(doc) ==
    \A i, j \in 1..Len(doc.firmware_entries) :
        i # j => PairOf(doc.firmware_entries[i]) # PairOf(doc.firmware_entries[j])

\* the step that completes a call which found its pair in the catalog: the
\* written document has the loaded one's length, the loaded entries of all
\* other pairs at their places, and at the pair's place the new entry
ReplacedInPlace(p) ==
    LET u      == up[p]
        before == u.loaded.firmware_entries
        after  == catalog'.doc.firmware_entries
        i      == MatchIndex(before, u.device_type, u.version)
        file   == store[DestName(u)].data
    IN /\ catalog'.state = "valid"
       /\ i > 0
       /\ Len(after) = Len(before)
       /\ \A j \in 1..Len(before) : j # i => after[j] = before[j]
       /\ PairOf(after[i]) = PairOf(before[i])
       /\ after[i].description = u.description
       /\ after[i].size = Len(file)
       /\ IF p = Server THEN after[i].md5 = calculate_md5(file)
                        ELSE after[i].checksum = calculate_stm32_crc32(file)

ReuploadStep ==
    \A p \in Procs :
        (/\ up[p].pc \in {"save_dump", "af_save_dump"}
         /\ up[p].updated
         /\ up'[p].ret = "True") => ReplacedInPlace(p)

\* C1: with calls that do not interleave, the persisted catalog never holds two
\* entries of one (device_type, version) pair, and a call that succeeds on a pair
\* already in the catalog replaces that entry in place (new description, size and
\* digest), keeps the number of entries and leaves the other entries as they were.
C1_UpsertKeepsPairsUnique ==
    /\ [](catalog.state = "valid" => NoDuplicatePairs(catalog.doc))
    /\ [][ReuploadStep]_vars

\* a call has just replaced the entry of its pair, beside another pair's entry
C1_Witness ==
    \E p \in Procs :
        /\ up[p].pc = "idle" /\ up[p].ret = "True" /\ up[p].updated
        /\ catalog.state = "valid"
        /\ Len(catalog.doc.firmware_entries) = 2
        /\ catalog.doc.firmware_entries[2].description = "first"

\* C2: whenever the catalog document is readable, its latest_version is at least
\* every version that a successful upload_firmware call has ingested.
C2_LatestNeverRegresses ==
    (ServerNeverIngested /\ catalog.state = "valid") =>
        \A e \in ingested :
            compare_versions(catalog.doc.latest_version, e.version) >= 0

\* the two processes have made one call each, and both calls returned True
BothReturnedTrue ==
    /\ calls = 2
    /\ \A p \in Uploaders : up[p].pc = "idle" /\ up[p].ret = "True"

\* C3: when two upload_firmware calls of separate processes have both returned
\* True, the catalog holds an entry for every pair ingested and a latest_version
\* at least every ingested version: no update is lost.
C3_NoLostUpdate ==
    BothReturnedTrue =>
        /\ catalog.state = "valid"
        /\ ingested \subseteq Pairs(catalog.doc)
        /\ \A e \in ingested :
              compare_versions(catalog.doc.latest_version, e.version) >= 0

\* the file an entry names exists and has the entry's size and checksum
EntryMatchesFile(e) ==
    /\ e.filename \in DOMAIN store
    /\ store[e.filename].exists
    /\ Len(store[e.filename].data) = e.size
    /\ calculate_stm32_crc32(store[e.filename].data) = e.checksum

\* C4: at every moment, every entry of the persisted catalog names an existing
\* file of the recorded size and checksum.
C4_CatalogMatchesStore ==
    (ServerNeverIngested /\ catalog.state = "valid") =>
        \A i \in 1..Len(catalog.doc.firmware_entries) :
            EntryMatchesFile(catalog.doc.firmware_entries[i])

\* the call of p returned False from the copy step, leaving a destination that
\* holds a part of the source
CopyFailedPartway(p) ==
    /\ up[p].pc = "idle" /\ up[p].ret = "False" /\ up[p].fail = "copy"
    /\ store[DestName(up[p])].exists
    /\ Len(store[DestName(up[p])].data) >= 1
    /\ Len(store[DestName(up[p])].data) < Len(SourceData(up[p].firmware_file))

\* C5: after a copy that failed partway, no entry of the persisted catalog names
\* the partially written file.
C5_PartialFileNotReferenced ==
    \A p \in Uploaders :
        (CopyFailedPartway(p) /\ catalog.state = "valid") =>
            \A i \in 1..Len(catalog.doc.firmware_entries) :
                catalog.doc.firmware_entries[i].filename # DestName(up[p])

\* C6: metadata.json never holds an empty or half-written document.
C6_CatalogAlwaysComplete ==
    ServerNeverIngested => catalog.state # "partial"

\* the step is one of process p's call of upload_firmware
StepOf(p) == up[p].pc \notin {"idle", "off"} /\ up'[p] # up[p]

\* the destination holds the whole source before size and checksum are taken,
\* and both are taken from the destination
InfoFromWrittenCopy(p) ==
    LET dest == store[DestName(up[p])]
    IN up[p].pc = "info"
          => /\ dest = File(SourceData(up[p].firmware_file))
             /\ up'[p].pc = "load"
                   => /\ up'[p].file_size = Len(dest.data)
                      /\ up'[p].checksum = calculate_stm32_crc32(dest.data)

\* a call returns True from the step that wrote the catalog, and returns False
\* for a failed copy or checksum from a step before the save
ReturnsInOrder(p) ==
    /\ up'[p].ret = "True"
          => (up[p].pc = "save_dump" /\ catalog' = ValidCatalog(up[p].metadata))
    /\ (up'[p].pc = "idle" /\ up'[p].fail \in {"open", "copy", "info"})
          => up[p].pc \in {"copy_open", "copy", "info"}

\* C18 as stated: in a call of upload_firmware the destination is written and
\* closed, then size and checksum are read from it, then the catalog is written;
\* no step before the save writes the catalog document, so that a call that
\* fails in the copy or the checksum leaves the catalog as it was before the
\* call, and a call that returns True has written it once.
C18_CatalogWrittenOnlyBySave ==
    [][\A p \in Uploaders :
          StepOf(p) => /\ InfoFromWrittenCopy(p)
                       /\ ReturnsInOrder(p)
                       /\ up[p].pc \notin {"save_open", "save_dump"}
                             => catalog' = catalog]_vars

\* C18: as above, except that the first step of the call creates the empty
\* default document when metadata.json does not exist; the catalog is otherwise
\* written by the save alone.
C18_CatalogWrittenBySaveOrCreated ==
    [][\A p \in Uploaders :
          StepOf(p) => /\ InfoFromWrittenCopy(p)
                       /\ ReturnsInOrder(p)
                       /\ up[p].pc \notin {"save_open", "save_dump"}
                             => \/ catalog' = catalog
                                \/ /\ up[p].pc = "ensure"
                                   /\ catalog.state = "missing"
                                   /\ catalog' = ValidCatalog(EmptyMetadata)]_vars

\* a call on the one-entry catalog failed in the checksum step and left the
\* catalog as it was
C18_Witness ==
    \E p \in Uploaders :
        /\ up[p].pc = "idle"
        /\ up[p].ret = "False"
        /\ up[p].fail = "info"
        /\ calls = 1
        /\ catalog = SeededCatalog

---------------------------------------------------------------------------
(* Properties of serving.  They read the request as it arrived, not as      *)
(* parse_request returns it.                                                *)

\* the request line has method, target and version
WellFormed(request) == Len(request.line) = 3

RequestPath(request) == request.line[2].segs

\* some header line is a Basic authorization of exactly the configured pair
CarriesCredentials(request) ==
    \E i \in 1..Len(request.headers) :
        /\ request.headers[i].kind = "kv"
        /\ Lower(request.headers[i].key) = "authorization"
        /\ request.headers[i].value.prefix = "Basic "
        /\ A2bBase64(request.headers[i].value.rest).text
              = <<API_USERNAME, ":", API_PASSWORD>>

\* the status lines of a response, in the order sent
StatusLines(sent) == SelectSeq(sent, LAMBDA piece : piece.status # 0)

Sends(status) == \E i \in 1..Len(conn.sent) : conn.sent[i].status = status

\* a well-formed request for '/' or '/api/firmware/list' that passed the gate
CatalogRequest ==
    /\ conn.handled
    /\ WellFormed(conn.request)
    /\ RequestPath(conn.request) \in {RootPath, ListPath}
    /\ check_auth(parse_request(conn.request).headers)

\* C7: when the catalog document is missing or cannot be parsed, the '/' and
\* '/api/firmware/list' handlers of main.py go on with the empty catalog (no
\* entries, latest version 0.0.0): the answer is 200 with that catalog, never
\* 500.
C7_HandlersFallBackToEmptyCatalog ==
    (CatalogRequest /\ conn.variant = "main" /\ catalog.state # "valid")
        => /\ ~Sends(HTTP_500)
           /\ Len(conn.sent) = 1
           /\ conn.sent[1].status = HTTP_200
           /\ conn.sent[1].doc = ValidCatalog(EmptyMetadata)

\* a well-formed request for a path that is neither under '/download/' nor
\* '/firmware/metadata.json', without the configured credentials
GatedRequest ==
    /\ conn.handled
    /\ WellFormed(conn.request)
    /\ ~StartsWithDownload(RequestPath(conn.request))
    /\ RequestPath(conn.request) # MetadataPath
    /\ ~CarriesCredentials(conn.request)

\* C8: in both variants a request for a non-exempt path without a Basic
\* authorization header of exactly the configured username and password gets
\* one status line, 401, with a WWW-Authenticate header; the connection is
\* closed, neither the catalog nor a binary is opened, and no route handler
\* runs.
C8_GateDeniesWithoutCredentials ==
    GatedRequest
        => /\ Len(conn.sent) >= 2
           /\ conn.sent[1].status = HTTP_401
           /\ Len(StatusLines(conn.sent)) = 1
           /\ \E i \in 1..Len(conn.sent) : "WWW-Authenticate" \in conn.sent[i].headers
           /\ conn.closed >= 1
           /\ conn.opened = {}
           /\ conn.handler = "none"

\* a wrong password, present in the header block, is denied
C8_Witness ==
    /\ GatedRequest
    /\ RequestPath(conn.request) = ListPath
    /\ "authorization" \in DOMAIN parse_request(conn.request).headers
    /\ conn.sent[1].status = HTTP_401

\* a well-formed request without credentials for a path under '/download/' or
\* for '/firmware/metadata.json'
ExemptRequest ==
    /\ conn.handled
    /\ WellFormed(conn.request)
    /\ ~CarriesCredentials(conn.request)
    /\ \/ StartsWithDownload(RequestPath(conn.request))
       \/ RequestPath(conn.request) = MetadataPath

C10_MalformedAnswered404 ==
    (conn.handled /\ Len(conn.request.line) < 3)
        => /\ conn.sent = <<Piece(HTTP_404, {}, "")>>
           /\ ~Sends(HTTP_500)
           /\ conn.closed >= 1


---------------------------------------------------------------------------
(* Properties of the serving loop and of start-up *)

\* C11: after handling any connection, whatever the request and whichever recv
\* or send failed (the send of the 500 response included), run_server has not
\* ended: it goes back to accept.
C11_LoopSurvivesEveryConnection == conn.handled => ~Terminated

\* C12: in both variants every handle_request, on every path and also when a
\* recv or a send raised, has closed the client socket when it ends, and the
\* next connection is accepted only from a handled, closed one.
C12_ClosedBeforeNextAccept ==
    /\ [](conn.handled => conn.closed >= 1)
    /\ [][(~conn'.handled /\ conn.booted) => (conn.handled /\ conn.closed >= 1)]_vars

\* a connection on which the socket failed has been closed and the next accepted
C12_Witness ==
    /\ ~conn.handled
    /\ conn.booted
    /\ faults = 1

\* C20: setup_storage leaves an existing catalog document as it is, in main.py
\* and in server.py; it writes the empty catalog only when there was none.
C20_SetupKeepsExistingCatalog ==
    [][(~conn.booted /\ conn'.booted /\ catalog.state # "missing")
         => catalog' = catalog]_vars


---------------------------------------------------------------------------
(* Properties of the routes *)

\* the request passed the gate of its variant on a socket that did not fail
Authenticated ==
    /\ conn.handled
    /\ conn.drop = NoDrop
    /\ WellFormed(conn.request)
    /\ check_auth(parse_request(conn.request).headers)

\* the device_type parameter of the request's query, "" without one
RequestedDevice(request) ==
    LET query == request.line[2].query
        hits  == {i \in 1..Len(query) : query[i].eq /\ query[i].key = "device_type"}
    IN IF hits = {} THEN ""
       ELSE query[CHOOSE i \in hits : \A j \in hits : j <= i].value

\* the catalog's entries of a device type
EntriesOf(device_type) ==
    {e \in {catalog.doc.firmware_entries[i] :
               i \in 1..Len(catalog.doc.firmware_entries)} :
        e.device_type = device_type}

\* C13: an authenticated '/api/firmware/latest?device_type=X' request to
\* server.py is answered 200 with an entry of device type X whose version is at
\* least that of every entry of X, and with the 404 'no firmware found' object
\* only when the catalog has no entry of X.
C13_LatestIsMaximalEntry ==
    (/\ Authenticated
     /\ conn.variant = "server"
     /\ RequestPath(conn.request) = LatestPath
     /\ catalog.state = "valid")
        => LET matching == EntriesOf(RequestedDevice(conn.request))
           IN /\ Len(conn.sent) = 1
              /\ IF matching = {}
                 THEN conn.sent[1].status = HTTP_404
                 ELSE /\ conn.sent[1].status = HTTP_200
                      /\ conn.sent[1].entry \in matching
                      /\ \A e \in matching :
                            compare_versions(conn.sent[1].entry.version, e.version) >= 0


\* the request's path is '/download/' and the name of a binary
BinaryDownload ==
    /\ conn.handled
    /\ conn.drop = NoDrop
    /\ WellFormed(conn.request)
    /\ Len(RequestPath(conn.request)) = 2
    /\ RequestPath(conn.request)[1] = Literal("download")
    /\ RequestPath(conn.request)[2] \in BinaryNames

\* the body bytes of the pieces from the i-th on, in the order sent
RECURSIVE BodyFrom(_, _)
BodyFrom(sent, i) ==
    IF i > Len(sent) THEN <<>> ELSE sent[i].data \o BodyFrom(sent, i + 1)

\* C16: in both variants a '/download/{filename}' request for an existing file
\* gets one 200 header block whose Content-Length is the file's size, followed
\* by the file's bytes in order, in pieces of 1 to 1024 bytes, so that as many
\* body bytes are sent as Content-Length says; for a file that does not exist
\* the response is the 404 alone.
C16_DownloadSendsWholeFile ==
    BinaryDownload
        => LET file == store[RequestPath(conn.request)[2]]
               sent == conn.sent
           IN IF file.exists
              THEN /\ Len(sent) >= 1
                   /\ sent[1].status = HTTP_200
                   /\ "Content-Length" \in sent[1].headers
                   /\ sent[1].length = Len(file.data)
                   /\ sent[1].data = <<>>
                   /\ \A i \in 2..Len(sent) :
                         /\ sent[i].status = 0
                         /\ Len(sent[i].data) \in 1..DownloadChunkSize
                   /\ BodyFrom(sent, 2) = file.data
                   /\ Len(BodyFrom(sent, 2)) = sent[1].length
              ELSE /\ Len(sent) = 1
                   /\ sent[1].status = HTTP_404
                   /\ ~Sends(HTTP_200)

\* a file of 2049 bytes went out in three pieces
C16_Witness ==
    /\ BinaryDownload
    /\ store[RequestPath(conn.request)[2]].data = BigFile
    /\ Len(conn.sent) = 4
    /\ Len(conn.sent[4].data) = 1

\* the handler the route table gives a path, "not_found" for the other paths
RouteOf(path) ==
    CASE path = RootPath          -> "root"
      [] path = ListPath          -> "list"
      [] path = LatestPath        -> "latest"
      [] path = MetadataPath      -> "metadata"
      [] StartsWithDownload(path) -> "download"
      [] OTHER                    -> "not_found"

\* C17: an authenticated GET request for a listed route is answered by that
\* route's handler; every other authenticated request, one with another method
\* for a listed path included, is answered 404 by the not-found branch.
C17_DispatchByMethodAndPath ==
    Authenticated
        => IF conn.request.line[1] = "GET"
           THEN conn.handler = RouteOf(RequestPath(conn.request))
           ELSE /\ conn.handler = "not_found"
                /\ Len(conn.sent) = 1
                /\ conn.sent[1].status = HTTP_404

---------------------------------------------------------------------------
(* Properties of the pure functions *)

\* component i of a version string padded with zeros on the right
Part(v, i) == IF i <= Len(v) THEN v[i] ELSE 0

\* the order of two version strings by their first differing component
PaddedOrder(a, b) ==
    LET differ == {i \in 1..Max(Len(a), Len(b)) : Part(a, i) # Part(b, i)}
    IN IF differ = {} THEN 0
       ELSE LET first == CHOOSE i \in differ : \A j \in differ : i <= j
            IN IF Part(a, first) < Part(b, first) THEN -1 ELSE 1

\* C14: compare_versions compares the component sequences lexicographically
\* after padding the shorter with zeros on the right; compare(a, b) is
\* -compare(b, a); and compare(a, b) >= 0 with compare(b, c) >= 0 gives
\* compare(a, c) >= 0, for all version strings of the bounded length and parts.
C14_CompareIsTotalPreorder ==
    (probe.op = "compare_versions" /\ probe.done)
        => LET a == probe.version1
               b == probe.version2
           IN /\ probe.result = PaddedOrder(a, b)
              /\ probe.result = -compare_versions(b, a)
              /\ \A c \in VersionStrings :
                    (probe.result >= 0 /\ compare_versions(b, c) >= 0)
                        => compare_versions(a, c) >= 0

\* "1.9" against "1.10" gives -1
C14_Witness ==
    /\ probe.op = "compare_versions"
    /\ probe.done
    /\ probe.version1 = <<1, 9>>
    /\ probe.version2 = <<1, 10>>
    /\ probe.result = -1

\* the register after the words of the whole byte stream, only the last 1-3
\* bytes of the stream padded
StreamRegister(data) == CrcWords(CrcInit, data, 1, (Len(data) + 3) \div 4)

\* digests computed by running calculate_stm32_crc32 of upload_firmware.py
KnownDigests ==
    {<<<<1, 2, 3>>, Hex08(<<24926, 43850>>)>>,
     <<<<7>>, Hex08(<<55619, 36222>>)>>,
     <<<<1, 2, 3, 4, 5>>, Hex08(<<47651, 31715>>)>>,
     <<<<0>>, Hex08(<<50948, 56699>>)>>,
     <<<<0, 0, 0, 0, 1>>, Hex08(<<28101, 42734>>)>>,
     <<<<255, 255, 255, 255>>, <<"0", "0", "0", "0", "0", "0", "0", "0">>>>,
     <<<<>>, <<"f", "f", "f", "f", "f", "f", "f", "f">>>>,
     <<LongFile(CrcChunkSize + 1), Hex08(<<49545, 47540>>)>>,
     <<LongFile(CrcChunkSize + 2), Hex08(<<44567, 17728>>)>>,
     <<LongFile(CrcChunkSize + 4), Hex08(<<50988, 27143>>)>>}

\* C15: calculate_stm32_crc32 returns the eight lowercase hex digits of the
\* register that starts at 0xFFFFFFFF and takes, word by word, the little-endian
\* words of the whole byte stream (only the stream's last 1-3 bytes padded with
\* zeros), each XOR-ed in and followed by 32 shift steps with polynomial
\* 0x04C11DB7, without final inversion; the empty file gives "ffffffff".
C15_DigestOfWholeStream ==
    (probe.op = "calculate_stm32_crc32" /\ probe.done)
        => /\ probe.digest = Hex08(StreamRegister(probe.data))
           /\ Len(probe.digest) = 8
           /\ \A k \in KnownDigests : k[1] = probe.data => probe.digest = k[2]

\* a file one byte longer than a read of 256 bytes
C15_Witness ==
    /\ probe.op = "calculate_stm32_crc32"
    /\ probe.done
    /\ probe.data = LongFile(CrcChunkSize + 1)
    /\ probe.digest = <<"c", "1", "8", "9", "b", "9", "b", "4">>

\* C19: the digest of the checksum loop is the same whatever the size of its
\* reads: with reads of 1 byte, of 4096 bytes or of any other size it equals
\* the digest with the configured reads of 256 bytes.
C19_DigestIndependentOfReads ==
    (probe.op = "reads" /\ probe.done)
        => probe.digest = calculate_stm32_crc32(probe.data)


---------------------------------------------------------------------------
(* Properties of the repository under serving *)

\* this step handles a connection
HandlesConnection == ~conn.handled /\ conn'.handled

\* the response is one 200 carrying this catalog document
ReturnsCatalog(cat) ==
    /\ Len(conn.sent) = 1
    /\ conn.sent[1].status = HTTP_200
    /\ conn.sent[1].doc = cat

\* a request for the binary of a catalog entry whose file is not in /firmware
DownloadOfDeleted ==
    /\ conn.handled
    /\ conn.drop = NoDrop
    /\ WellFormed(conn.request)
    /\ StartsWithDownload(RequestPath(conn.request))
    /\ Len(RequestPath(conn.request)) = 2
    /\ Catalogued(RequestPath(conn.request)[2])
    /\ ~store[RequestPath(conn.request)[2]].exists

\* a request for the catalog document after such a download: the document
\* route of main.py, or the list route with credentials
CatalogAfterDeleted ==
    /\ conn.handled
    /\ conn.drop = NoDrop
    /\ conn.prior.missed
    /\ WellFormed(conn.request)
    /\ \/ conn.variant = "main" /\ RequestPath(conn.request) = MetadataPath
       \/ RequestPath(conn.request) = ListPath /\ Authenticated

\* C21: handling a request, whatever its outcome, leaves the catalog document
\* and every binary as they were; a download of a catalogued binary that is
\* gone is answered 404 alone, and a request for the catalog document after it
\* is answered with the document as it was at that download.
C21_RequestsLeaveRepositoryUnchanged ==
    /\ [][HandlesConnection => (catalog' = catalog /\ store' = store)]_vars
    /\ [](DownloadOfDeleted
            => /\ Len(conn.sent) = 1
               /\ conn.sent[1].status = HTTP_404)
    /\ [](CatalogAfterDeleted
            => /\ ReturnsCatalog(conn.prior.catalog)
               /\ conn.prior.catalog = catalog)

\* main.py serves the document after the 404 of the deleted binary
C21_Witness ==
    /\ CatalogAfterDeleted
    /\ conn.variant = "main"
    /\ RequestPath(conn.request) = MetadataPath
    /\ conn.prior.catalog = SeededCatalog
    /\ ReturnsCatalog(SeededCatalog)


\* C22: in both variants a handled connection is sent at most one status line,
\* and nothing is sent before it: no 404 or 500 status line follows the 200
\* headers of a download or any other bytes, also when the file fails to open
\* or to read after os.stat, or a send fails.
C22_AtMostOneStatusLine ==
    conn.handled
        => /\ Len(StatusLines(conn.sent)) <= 1
           /\ \A i \in 2..Len(conn.sent) : conn.sent[i].status = 0


---------------------------------------------------------------------------
(* Properties of the version orders *)

\* C23: for all well-formed version strings a and b, of equal or different
\* numbers of components, parse_version(a) > parse_version(b) in server.py
\* exactly when compare_versions(a, b) > 0 in upload_firmware.py, and
\* parse_version(a) == parse_version(b) exactly when compare_versions(a, b) is 0.
C23_ServingOrderAgreesWithIngestion ==
    (probe.op = "parse_version" /\ probe.done)
        => LET c == compare_versions(probe.version1, probe.version2)
           IN /\ (probe.result > 0) <=> (c > 0)
              /\ (probe.result = 0) <=> (c = 0)
              /\ (probe.version1 = probe.version2) <=> (c = 0)


\* C24: after successful calls of upload_firmware, from the empty catalog on,
\* no two entries of the catalog with the same device_type have versions that
\* compare_versions ranks equal ("1.2" and "1.2.0"), so that the entry of the
\* greatest version of a device type is unique.
C24_NoEqualVersionsPerDevice ==
    (ServerNeverIngested /\ catalog.state = "valid")
        => \A i, j \in 1..Len(catalog.doc.firmware_entries) :
              (/\ i # j
               /\ catalog.doc.firmware_entries[i].device_type
                     = catalog.doc.firmware_entries[j].device_type)
                 => compare_versions(catalog.doc.firmware_entries[i].version,
                                     catalog.doc.firmware_entries[j].version) # 0


---------------------------------------------------------------------------
(* Properties of the credential check of server.py *)

\* some piece sent on the connection carries the catalog document, as the file
\* holds it or as json.dumps writes it, or one of its entries
SendsCatalogContents ==
    \E i \in 1..Len(conn.sent) :
        conn.sent[i].doc # NoBody \/ conn.sent[i].entry # NoEntry

\* C25: in server.py, where only the paths under '/download/' skip the
\* credential check, the contents of /firmware/metadata.json are sent only on
\* connections whose request passed check_auth, whatever the path; in
\* particular not for '/download/metadata.json'.
C25_CatalogOnlyToAuthenticated ==
    (conn.handled /\ conn.variant = "server" /\ SendsCatalogContents)
        => /\ WellFormed(conn.request)
           /\ check_auth(parse_request(conn.request).headers)

====
